---------------------------- MODULE Spec2Model ----------------------------
(***************************************************************************)
(* A model of logic.py: the LogicSymbolGenerator (catalog, combine,        *)
(* novel-symbol cache, batch loop, validation) and the part of             *)
(* SymbolGeneratorGUI that drives it (the three text fields, the status    *)
(* bar, the generate_symbols handler).                                     *)
(*                                                                         *)
(* A Python str is a sequence of code points (integers).  The text of an   *)
(* entry field is a sequence of one-character strings.                     *)
(***************************************************************************)
EXTENDS Integers, Sequences, FiniteSets, TLC

VARIABLES
    \* LogicSymbolGenerator
    categories,        \* ordered dict key -> SymbolCategory, as a sequence of records
    decorators,        \* ordered dict name -> combining mark, as a sequence of records
    positions,         \* list of superscript digits
    symbol_cache,      \* defaultdict(set): a function from the keys present to sets of strings
    \* SymbolGeneratorGUI
    amount_var, min_length_var, max_length_var,   \* the three StringVars
    status_var,        \* the status bar's StringVar
    symbols_text,      \* the lines of the "Generated Symbols" text widget
    categories_text,   \* the lines of the "Symbol Categories" text widget
    screen,            \* the status text painted on the display at the last refresh
    \* the running generate_symbols / generate_batch / generate_novel_symbol call
    pc, n, min_length, max_length, cache_key, symbols, attempts, length, new_symbol,
    \* history
    typed,             \* the three texts as the user typed them before the last click
    seen,              \* the status texts painted since the last click
    calls,             \* clicks on "Generate Symbols" so far
    session,           \* what the user will still type and click: a sequence of field triples
    novel_returned,    \* key -> strings generate_novel_symbol has returned for that key
    batch_returned,    \* key -> strings earlier generate_batch calls have returned for that key
    \* a direct call of one generator method: its arguments and its return value
    arg, ret

vars == <<categories, decorators, positions, symbol_cache,
          amount_var, min_length_var, max_length_var, status_var, symbols_text,
          categories_text, screen,
          pc, n, min_length, max_length, cache_key, symbols, attempts, length, new_symbol,
          typed, seen, calls, session, novel_returned, batch_returned, arg, ret>>

gen_tables == <<categories, decorators, positions>>
gui_vars == <<amount_var, min_length_var, max_length_var, status_var, symbols_text,
              categories_text, screen>>
hist_vars == <<typed, seen, calls, session, novel_returned, batch_returned>>

----------------------------------------------------------------------------
(* Bounds of the exploration *)

\* how many not-yet-cached outcomes of each shape a draw may return
MaxFresh == 1
\* the longest string handed to is_valid_symbol directly
MaxProbeLen == 16

----------------------------------------------------------------------------
(* Helpers on sequences and sets *)

Range(s) == {s[i] : i \in DOMAIN s}

Min2(a, b) == IF a <= b THEN a ELSE b

RECURSIVE Flatten(_)
Flatten(ss) == IF ss = <<>> THEN <<>> ELSE Head(ss) \o Flatten(Tail(ss))

\* s before t in the order of code points, a shorter prefix first
RECURSIVE Before(_, _)
Before(s, t) ==
    IF s = <<>> THEN t # <<>>
    ELSE IF t = <<>> THEN FALSE
    ELSE IF Head(s) # Head(t) THEN Head(s) < Head(t)
    ELSE Before(Tail(s), Tail(t))

RECURSIVE Ascending(_)
Ascending(S) ==
    IF S = {} THEN <<>>
    ELSE LET least == CHOOSE s \in S : \A t \in S \ {s} : Before(s, t)
         IN  <<least>> \o Ascending(S \ {least})

Reverse(list) == [i \in DOMAIN list |-> list[Len(list) + 1 - i]]

\* list(a set): the order is whatever the hash table gives; the model follows
\* two of the orders
Listings(S) == {Ascending(S), Reverse(Ascending(S))}

----------------------------------------------------------------------------
(* LogicSymbolGenerator.__init__ *)

SymbolCategory(key, name, syms, description) ==
    [key |-> key, name |-> name, symbols |-> syms, description |-> description]

InitialCategories ==
    << SymbolCategory("letters", "Letters", <<65, 66, 67, 68, 69, 70>>,
                      "Basic logical variables"),
       SymbolCategory("quantifiers", "Quantifiers", <<8704, 8707, 8708>>,
                      "Universal and existential quantifiers"),
       SymbolCategory("connectives", "Connectives", <<8743, 8744, 8594, 8596, 8853, 8855>>,
                      "Logical connectives and operators"),
       SymbolCategory("modal", "Modal Operators", <<9633, 9671, 9674, 8718>>,
                      "Modal logic operators"),
       SymbolCategory("set_theory", "Set Theory", <<8712, 8713, 8838, 8834, 8746, 8745, 8709>>,
                      "Set theory operators and relations"),
       SymbolCategory("misc", "Miscellaneous",
                      <<8866, 8872, 8801, 8800, 8776, 8733, 8734, 8869, 8741>>,
                      "Additional logical and mathematical symbols") >>

InitialDecorators ==
    << [name |-> "overline", mark |-> 773], [name |-> "underline", mark |-> 818],
       [name |-> "tilde", mark |-> 771], [name |-> "macron", mark |-> 772],
       [name |-> "breve", mark |-> 774], [name |-> "dot", mark |-> 775],
       [name |-> "diaeresis", mark |-> 776], [name |-> "ring", mark |-> 778],
       [name |-> "double_acute", mark |-> 779], [name |-> "caron", mark |-> 780] >>

InitialPositions == <<8304, 185, 178, 179, 8308, 8309, 8310, 8311, 8312, 8313>>

\* list(self.decorators.values())
DecoratorValues(decs) == [i \in DOMAIN decs |-> decs[i].mark]

\* every base symbol of the catalog, in catalog order
FlatSymbols(cats) == Flatten([i \in DOMAIN cats |-> cats[i].symbols])

----------------------------------------------------------------------------
(* unicodedata.category, on the code points the model uses *)

GeneralCategory(cp) ==
    CASE cp \in 65..90 -> "Lu"
      [] cp \in 97..122 -> "Ll"
      [] cp \in 48..57 -> "Nd"
      [] cp = 32 -> "Zs"
      [] cp = 45 -> "Pd"
      [] cp \in {178, 179, 185, 8304} \cup (8308..8313) -> "No"
      [] cp \in 768..879 -> "Mn"
      [] cp \in 8413..8416 -> "Me"
      [] cp \in {8594, 8596} -> "Sm"
      [] cp \in 8704..8959 -> "Sm"
      [] cp \in {9633, 9671, 9674} -> "So"
      [] cp \in 55296..57343 -> "Cs"
      [] OTHER -> "Cn"

\* str.encode('utf-8') raises UnicodeEncodeError on a lone surrogate
EncodesUtf8(s) == \A i \in DOMAIN s : s[i] \notin 55296..57343

MaxSymbolLength == 15

\* the whitelist with the category of the superscript digits let in
ValidCategories_with_No == {"So", "Sm", "Mn", "Me", "Pd", "Lu", "No"}

ValidCategories == {"So", "Sm", "Mn", "Me", "Pd", "Lu"}

\* is_valid_symbol with the length test off by one
is_valid_symbol_short(s) ==
    IF ~EncodesUtf8(s) THEN FALSE
    ELSE IF Len(s) >= MaxSymbolLength THEN FALSE
    ELSE \A i \in DOMAIN s : GeneralCategory(s[i]) \in ValidCategories

is_valid_symbol(s) ==
    IF ~EncodesUtf8(s) THEN FALSE
    ELSE IF Len(s) > MaxSymbolLength THEN FALSE
    ELSE \A i \in DOMAIN s : GeneralCategory(s[i]) \in ValidCategories

----------------------------------------------------------------------------
(* get_random_base and combine_symbols: the set of values a call can return *)

\* random.choice(seq)
random_choice(seq) == Range(seq)

\* random.randint(a, b)
random_randint(a, b) == a..b

get_random_base(cats, category) ==
    IF category # "" /\ \E i \in DOMAIN cats : cats[i].key = category
    THEN LET i == CHOOSE j \in DOMAIN cats : cats[j].key = category
         IN  random_choice(cats[i].symbols)
    ELSE UNION {random_choice(cats[i].symbols) : i \in DOMAIN cats}

\* combine_with whose 'stack' appends one position marker per requested symbol
combine_with_tall_stack(cats, decs, poss, len, method) ==
    IF method = "stack"
    THEN {<<b>> \o ps : b \in get_random_base(cats, ""), ps \in [1..(len - 1) -> random_choice(poss)]}
    ELSE IF method = "join"
    THEN [1..len -> get_random_base(cats, "")]
    ELSE {<<b, d>> : b \in get_random_base(cats, ""),
                     d \in random_choice(DecoratorValues(decs))}

\* method "" is the omitted (None) argument
combine_with(cats, decs, poss, len, method) ==
    IF method = "stack"
    THEN {<<b, p>> : b \in get_random_base(cats, ""), p \in random_choice(poss)}
    ELSE IF method = "join"
    THEN [1..len -> get_random_base(cats, "")]
    ELSE {<<b, d>> : b \in get_random_base(cats, ""),
                     d \in random_choice(DecoratorValues(decs))}

combine_symbols(cats, decs, poss, len, method) ==
    IF len <= 0 THEN {<<>>}
    ELSE IF len = 1 THEN {<<b>> : b \in get_random_base(cats, "")}
    ELSE IF method = ""
    THEN UNION {combine_with(cats, decs, poss, len, m) :
                    m \in random_choice(<<"stack", "join", "overlay">>)}
    ELSE combine_with(cats, decs, poss, len, method)

----------------------------------------------------------------------------
(* int(text) and str(number) on the text of an entry field *)

DigitChars == <<"0", "1", "2", "3", "4", "5", "6", "7", "8", "9">>

DigitValue(c) == (CHOOSE i \in DOMAIN DigitChars : DigitChars[i] = c) - 1

RECURSIVE StripLeft(_)
StripLeft(t) == IF t # <<>> /\ Head(t) = " " THEN StripLeft(Tail(t)) ELSE t

RECURSIVE StripRight(_)
StripRight(t) ==
    IF t # <<>> /\ t[Len(t)] = " " THEN StripRight(SubSeq(t, 1, Len(t) - 1)) ELSE t

RECURSIVE DigitsValue(_)
DigitsValue(t) ==
    IF t = <<>> THEN 0
    ELSE 10 * DigitsValue(SubSeq(t, 1, Len(t) - 1)) + DigitValue(t[Len(t)])

\* int(text): ok is FALSE where Python raises ValueError
ParseInt(t) ==
    LET s == StripRight(StripLeft(t))
        signed == s # <<>> /\ Head(s) \in {"+", "-"}
        body == IF signed THEN Tail(s) ELSE s
        ok == body # <<>> /\ \A i \in DOMAIN body : body[i] \in Range(DigitChars)
    IN  [ok |-> ok,
         val |-> IF ~ok THEN 0
                 ELSE IF signed /\ Head(s) = "-" THEN 0 - DigitsValue(body)
                 ELSE DigitsValue(body)]

RECURSIVE StrNat(_)
StrNat(i) ==
    IF i < 10 THEN <<DigitChars[i + 1]>>
    ELSE StrNat(i \div 10) \o <<DigitChars[(i % 10) + 1]>>

\* str(i)
Str(i) == IF i < 0 THEN <<"-">> \o StrNat(0 - i) ELSE StrNat(i)

\* f"{n}-{min_length}-{max_length}"
CacheKey(num, lo, hi) == Str(num) \o <<"-">> \o Str(lo) \o <<"-">> \o Str(hi)

----------------------------------------------------------------------------
(* Status bar texts and widget contents *)

StatusReady == <<"Ready">>
StatusSwapped == <<"Length values swapped to maintain valid range">>
StatusReset == <<"Invalid length values reset to defaults">>
StatusError == <<"Error: Please enter valid positive numbers">>
StatusGenerating == <<"Generating symbols...">>
\* f"Generated {len(symbols)} symbols successfully"
StatusGenerated(k) == <<"Generated ">> \o Str(k) \o <<" symbols successfully">>

\* the symbols_text widget: an error message, or the numbered lines f"{i}. {symbol}\n"
TextEmpty == [message |-> "", lines |-> <<>>]
TextError == [message |-> "Please enter valid positive numbers", lines |-> <<>>]
TextSymbols(list) ==
    [message |-> "", lines |-> [i \in DOMAIN list |-> [num |-> Str(i), symbol |-> list[i]]]]

\* update_categories_display: what it writes into categories_text
update_categories_display(cats) ==
    [i \in DOMAIN cats |->
        [header |-> cats[i].name, description |-> cats[i].description,
         symbols |-> cats[i].symbols]]

\* validate_lengths: the new values of min_length_var, max_length_var, status_var
validate_lengths(minv, maxv, status) ==
    LET lo == ParseInt(minv)
        hi == ParseInt(maxv)
    IN  IF lo.ok /\ hi.ok
        THEN IF lo.val > hi.val
             THEN [min |-> Str(hi.val), max |-> Str(lo.val), status |-> StatusSwapped]
             ELSE [min |-> minv, max |-> maxv, status |-> status]
        ELSE [min |-> <<"1">>, max |-> <<"4">>, status |-> StatusReset]

----------------------------------------------------------------------------
(* The draws the model follows.  combine_symbols(length) can return any    *)
(* string of one of its shapes: a base symbol; or a base symbol with a     *)
(* position marker, a join of base symbols, a base symbol with a           *)
(* decorator.  Of each shape the model follows the draws that return a     *)
(* string already in the cache entry (the retry of generate_novel_symbol)  *)
(* and the draws that return one of the first MaxFresh strings, in catalog *)
(* order, that are not in the cache entry.  Every followed draw is a draw  *)
(* the code can make, and a shape has a followed draw outside the cache    *)
(* entry exactly when it has any string outside it.                        *)

CacheGet(k) == IF k \in DOMAIN symbol_cache THEN symbol_cache[k] ELSE {}

RECURSIVE Pow(_, _)
Pow(b, e) == IF e <= 0 THEN 1 ELSE b * Pow(b, e - 1)

\* the r-th outcome (r = 1, 2, ...) of each shape, in catalog order
NthBase(r) == <<FlatSymbols(categories)[r]>>

NthStack(r) ==
    <<FlatSymbols(categories)[((r - 1) \div Len(positions)) + 1],
      positions[((r - 1) % Len(positions)) + 1]>>

NthOverlay(r) ==
    <<FlatSymbols(categories)[((r - 1) \div Len(decorators)) + 1],
      DecoratorValues(decorators)[((r - 1) % Len(decorators)) + 1]>>

NthJoin(len, r) ==
    LET flat == FlatSymbols(categories)
    IN  [i \in 1..len |-> flat[(((r - 1) \div Pow(Len(flat), len - i)) % Len(flat)) + 1]]

\* of the first outcomes of a shape: those in the cache entry and the first
\* MaxFresh that are not
Followed(outcomes, cached) ==
    LET fresh == {r \in DOMAIN outcomes : outcomes[r] \notin cached}
    IN  {outcomes[r] : r \in {q \in DOMAIN outcomes :
            outcomes[q] \in cached \/ Cardinality({h \in fresh : h < q}) < MaxFresh}}

\* self.combine_symbols(length) in generate_novel_symbol: the draws followed
Draw(len, cached) ==
    LET flat == FlatSymbols(categories)
        m == Cardinality(cached) + MaxFresh
        first(total) == 1..Min2(total, m)
    IN  IF len <= 0 THEN {<<>>}
        ELSE IF len = 1
        THEN Followed([r \in first(Len(flat)) |-> NthBase(r)], cached)
        ELSE Followed([r \in first(Len(flat) * Len(positions)) |-> NthStack(r)], cached)
             \cup Followed([r \in first(Pow(Len(flat), len)) |-> NthJoin(len, r)], cached)
             \cup Followed([r \in first(Len(flat) * Len(decorators)) |-> NthOverlay(r)], cached)

----------------------------------------------------------------------------
(* The state after SymbolGeneratorGUI.__init__ *)

NoKeys == [k \in {} |-> {}]

Construct ==
    /\ categories = InitialCategories
    /\ decorators = InitialDecorators
    /\ positions = InitialPositions
    /\ symbol_cache = NoKeys
    /\ amount_var = <<"1", "0">>
    /\ min_length_var = <<"1">>
    /\ max_length_var = <<"4">>
    /\ status_var = StatusReady
    /\ symbols_text = TextEmpty
    /\ categories_text = update_categories_display(InitialCategories)
    /\ screen = StatusReady
    /\ n = 0 /\ min_length = 0 /\ max_length = 0 /\ cache_key = <<>>
    /\ symbols = {} /\ attempts = 0 /\ length = 0 /\ new_symbol = <<>>
    /\ typed = [amount |-> <<>>, min |-> <<>>, max |-> <<>>]
    /\ seen = {}
    /\ calls = 0
    /\ novel_returned = NoKeys
    /\ batch_returned = NoKeys

\* what the user types into the three fields before a click
Typing(a, lo, hi) == [amount |-> a, min |-> lo, max |-> hi]

Numbers(a, lo, hi) == Typing(Str(a), Str(lo), Str(hi))

\* The sessions followed: each is the sequence of typings-and-clicks of one
\* run of the program.
Sessions ==
    { <<Numbers(5, 1, 1)>>,
      <<Numbers(35, 1, 1), Numbers(35, 1, 1)>>,
      <<Numbers(36, 1, 1)>>,
      <<Numbers(1000, 1, 1)>>,
      <<Numbers(2, 1, 1), Numbers(2, 1, 1), Numbers(1, 1, 1)>>,
      <<Numbers(1, 2, 2), Numbers(2, 1, 1)>>,
      <<Typing(<<" ", "2">>, <<"2", " ">>, <<"+", "1">>)>>,
      <<Numbers(1, 2, 1), Numbers(0, 1, 1)>>,
      <<Numbers(0, 1, 1), Numbers(1, 1, 1)>>,
      <<Typing(<<"a">>, <<"1">>, <<"1">>), Numbers(1, 1, 1)>>,
      <<Numbers(1, 1, 1), Typing(<<"1">>, <<"1", ".", "5">>, <<"2">>)>>,
      <<Numbers(1, 0 - 1, 1)>>,
      <<Numbers(1, 2, 0)>>,
      <<Numbers(0 - 2, 2, 1)>>,
      <<Typing(<<"1">>, <<>>, <<"1">>)>>,
      <<Typing(<<"2">>, <<"2">>, <<"-">>)>> }

Init ==
    /\ Construct
    /\ session \in Sessions
    /\ pc = "idle"
    /\ arg = <<>>
    /\ ret = <<>>

----------------------------------------------------------------------------
(* generate_symbols, the handler of the "Generate Symbols" button *)

\* the test of line 279 without its last disjunct
AllPositive_but_max(a, lo, hi) ==
    /\ ParseInt(a).ok /\ ParseInt(lo).ok /\ ParseInt(hi).ok
    /\ ~(ParseInt(a).val <= 0 \/ ParseInt(lo).val <= 0)

\* lines 275-280: the three int() calls succeed and none is <= 0
AllPositive(a, lo, hi) ==
    /\ ParseInt(a).ok /\ ParseInt(lo).ok /\ ParseInt(hi).ok
    /\ ~(ParseInt(a).val <= 0 \/ ParseInt(lo).val <= 0 \/ ParseInt(hi).val <= 0)

\* The user fills the three fields and clicks: lines 274-288.  With a field
\* that is no positive integer the handler shows the error and returns to the
\* event loop, which repaints the status bar.
generate_symbols ==
    /\ pc = "idle"
    /\ session # <<>>
    /\ session' = Tail(session)
    /\ calls' = calls + 1
    /\ typed' = Head(session)
    /\ amount_var' = Head(session).amount
    /\ IF AllPositive(Head(session).amount, Head(session).min, Head(session).max)
       THEN LET v == validate_lengths(Head(session).min, Head(session).max, status_var)
            IN  /\ min_length_var' = v.min
                /\ max_length_var' = v.max
                /\ status_var' = v.status
                /\ pc' = "announce"
                /\ seen' = {}
                /\ UNCHANGED <<symbols_text, screen>>
       ELSE /\ min_length_var' = Head(session).min
            /\ max_length_var' = Head(session).max
            /\ status_var' = StatusError
            /\ symbols_text' = TextError
            /\ screen' = StatusError
            /\ seen' = {StatusError}
            /\ pc' = "idle"
    /\ UNCHANGED <<gen_tables, symbol_cache, categories_text, n, min_length, max_length,
                   cache_key, symbols, attempts, length, new_symbol,
                   novel_returned, batch_returned, arg, ret>>

\* generate_symbols_call that leaves the lengths to generate_batch's defaults
generate_symbols_call_defaults ==
    /\ pc = "announce"
    /\ status_var' = StatusGenerating
    /\ screen' = StatusGenerating
    /\ seen' = seen \cup {StatusGenerating}
    /\ n' = ParseInt(amount_var).val
    /\ min_length' = 1
    /\ max_length' = 4
    /\ cache_key' = CacheKey(ParseInt(amount_var).val, 1, 4)
    /\ symbols' = {}
    /\ attempts' = 0
    /\ pc' = "batch"
    /\ UNCHANGED <<gen_tables, symbol_cache, amount_var, min_length_var, max_length_var,
                   symbols_text, categories_text, length, new_symbol,
                   typed, calls, session, novel_returned, batch_returned, arg, ret>>

\* Lines 291-298 and generate_batch's lines 138-141: the status is set,
\* update_idletasks repaints it, and generate_batch is entered.
generate_symbols_call ==
    /\ pc = "announce"
    /\ status_var' = StatusGenerating
    /\ screen' = StatusGenerating
    /\ seen' = seen \cup {StatusGenerating}
    /\ n' = ParseInt(amount_var).val
    /\ min_length' = ParseInt(min_length_var).val
    /\ max_length' = ParseInt(max_length_var).val
    /\ cache_key' = CacheKey(ParseInt(amount_var).val, ParseInt(min_length_var).val,
                             ParseInt(max_length_var).val)
    /\ symbols' = {}
    /\ attempts' = 0
    /\ pc' = "batch"
    /\ UNCHANGED <<gen_tables, symbol_cache, amount_var, min_length_var, max_length_var,
                   symbols_text, categories_text, length, new_symbol,
                   typed, calls, session, novel_returned, batch_returned, arg, ret>>

----------------------------------------------------------------------------
(* generate_batch and generate_novel_symbol *)

max_attempts == n * 10

\* the while condition with <= for <
batch_continues_inclusive == Cardinality(symbols) <= n /\ attempts < max_attempts

\* the while condition of generate_batch, line 143
batch_continues == Cardinality(symbols) < n /\ attempts < max_attempts

\* One more pass of the loop: generate_novel_symbol is entered and draws its
\* length and its first candidate (lines 115-116).
generate_batch_loop ==
    /\ pc = "batch"
    /\ batch_continues
    /\ \E len \in random_randint(min_length, max_length) :
         \E s \in Draw(len, CacheGet(cache_key)) :
            /\ length' = len
            /\ new_symbol' = s
    /\ pc' = "novel"
    /\ UNCHANGED <<gen_tables, symbol_cache, gui_vars, n, min_length, max_length,
                   cache_key, symbols, attempts, hist_vars, arg, ret>>

\* The candidate is in the cache entry: it is drawn again (lines 120-121).
novel_retry ==
    /\ pc = "novel"
    /\ cache_key # <<>>
    /\ new_symbol \in CacheGet(cache_key)
    /\ \E s \in Draw(length, CacheGet(cache_key)) : new_symbol' = s
    /\ UNCHANGED <<gen_tables, symbol_cache, gui_vars, pc, n, min_length, max_length,
                   cache_key, symbols, attempts, length, hist_vars, arg, ret>>

\* symbol_cache / a history map with string s added to the entry of key k
WithAdded(map, k, s) ==
    [j \in DOMAIN map \cup {k} |->
        IF j = k THEN (IF k \in DOMAIN map THEN map[k] ELSE {}) \cup s ELSE map[j]]

\* novel_accept that draws without replacement: the drawn base symbol is
\* removed from its category
novel_accept_consuming ==
    /\ pc = "novel"
    /\ cache_key # <<>>
    /\ new_symbol \notin CacheGet(cache_key)
    /\ symbol_cache' = WithAdded(symbol_cache, cache_key, {new_symbol})
    /\ novel_returned' = WithAdded(novel_returned, cache_key, {new_symbol})
    /\ symbols' = IF is_valid_symbol(new_symbol) THEN symbols \cup {new_symbol} ELSE symbols
    /\ attempts' = attempts + 1
    /\ pc' = "batch"
    /\ categories' =
          LET Kept(c) == c # new_symbol[1]
          IN  [i \in DOMAIN categories |->
                  [categories[i] EXCEPT !.symbols = SelectSeq(@, Kept)]]
    /\ UNCHANGED <<decorators, positions, gui_vars, n, min_length, max_length, cache_key,
                   length, new_symbol, typed, seen, calls, session, batch_returned, arg, ret>>

\* novel_accept without the cache: the candidate is returned as drawn and
\* not recorded
novel_accept_unrecorded ==
    /\ pc = "novel"
    /\ novel_returned' = WithAdded(novel_returned, cache_key, {new_symbol})
    /\ symbols' = IF is_valid_symbol(new_symbol) THEN symbols \cup {new_symbol} ELSE symbols
    /\ attempts' = attempts + 1
    /\ pc' = "batch"
    /\ UNCHANGED <<gen_tables, symbol_cache, gui_vars, n, min_length, max_length, cache_key,
                   length, new_symbol, typed, seen, calls, session, batch_returned, arg, ret>>

\* The candidate is new: it enters the cache and is returned (lines 122-124);
\* generate_batch keeps it if valid and counts the attempt (lines 145-147).
novel_accept ==
    /\ pc = "novel"
    /\ cache_key # <<>>
    /\ new_symbol \notin CacheGet(cache_key)
    /\ symbol_cache' = WithAdded(symbol_cache, cache_key, {new_symbol})
    /\ novel_returned' = WithAdded(novel_returned, cache_key, {new_symbol})
    /\ symbols' = IF is_valid_symbol(new_symbol) THEN symbols \cup {new_symbol} ELSE symbols
    /\ attempts' = attempts + 1
    /\ pc' = "batch"
    /\ UNCHANGED <<gen_tables, gui_vars, n, min_length, max_length, cache_key,
                   length, new_symbol, typed, seen, calls, session, batch_returned, arg, ret>>

\* The loop ends: list(symbols) is returned in some order (line 149), the
\* handler writes the numbered lines and the final status (lines 301-305) and
\* returns to the event loop, which repaints the status bar.
generate_batch_return ==
    /\ pc = "batch"
    /\ ~batch_continues
    /\ \E list \in Listings(symbols) : symbols_text' = TextSymbols(list)
    /\ status_var' = StatusGenerated(Cardinality(symbols))
    /\ screen' = StatusGenerated(Cardinality(symbols))
    /\ seen' = seen \cup {StatusGenerated(Cardinality(symbols))}
    /\ batch_returned' = WithAdded(batch_returned, cache_key, symbols)
    /\ pc' = "idle"
    /\ UNCHANGED <<gen_tables, symbol_cache, amount_var, min_length_var, max_length_var,
                   categories_text, n, min_length, max_length, cache_key, symbols,
                   attempts, length, new_symbol, typed, calls, session, novel_returned,
                   arg, ret>>

Next ==
    \/ generate_symbols
    \/ generate_symbols_call
    \/ generate_batch_loop
    \/ novel_retry
    \/ novel_accept
    \/ generate_batch_return

Spec == Init /\ [][Next]_vars

----------------------------------------------------------------------------
(* is_valid_symbol called directly on a string *)

ProbeAlphabet == {65, 97, 49, 32, 45, 8304, 773, 8413, 8704, 9633, 55296}

\* a run of one character, with at most one place holding another
Probes ==
    {[j \in 1..k |-> IF j = i THEN d ELSE c] :
        k \in 0..MaxProbeLen, i \in 0..MaxProbeLen, c \in {65, 773}, d \in ProbeAlphabet}

InitValid ==
    /\ Construct
    /\ session = <<>>
    /\ pc = "probe"
    /\ arg \in Probes
    /\ ret = <<>>

call_is_valid_symbol ==
    /\ pc = "probe"
    /\ ret' = is_valid_symbol(arg)
    /\ pc' = "probed"
    /\ UNCHANGED <<gen_tables, symbol_cache, gui_vars, n, min_length, max_length, cache_key,
                   symbols, attempts, length, new_symbol, hist_vars, arg>>

SpecValid == InitValid /\ [][call_is_valid_symbol]_vars

----------------------------------------------------------------------------
(* combine_symbols called directly; method "" is the omitted argument *)

CombineLengths == {0 - 1, 0, 1, 2, 3}

CombineMethods == {"", "stack", "join", "overlay"}

InitCombine ==
    /\ Construct
    /\ session = <<>>
    /\ pc = "combine"
    /\ arg \in [len : CombineLengths, method : CombineMethods]
    /\ ret = <<>>

call_combine_symbols ==
    /\ pc = "combine"
    /\ ret' \in combine_symbols(categories, decorators, positions, arg.len, arg.method)
    /\ pc' = "combined"
    /\ UNCHANGED <<gen_tables, symbol_cache, gui_vars, n, min_length, max_length, cache_key,
                   symbols, attempts, length, new_symbol, hist_vars, arg>>

SpecCombine == InitCombine /\ [][call_combine_symbols]_vars

----------------------------------------------------------------------------
(* Properties *)

\* generate_batch has returned and its list is on display
Returned == pc = "idle" /\ calls > 0 /\ symbols_text.message = ""

\* the list generate_batch returned
Result == [i \in DOMAIN symbols_text.lines |-> symbols_text.lines[i].symbol]

Distinct(list) == \A i, j \in DOMAIN list : i # j => list[i] # list[j]

BaseSymbols == Range(FlatSymbols(categories))

\* generate_novel_symbol returns in this step
NovelReturns == pc = "novel" /\ pc' = "batch"

\* generate_batch returns in this step
BatchReturns == pc = "batch" /\ pc' = "idle"

\* C1: a generate_batch(n, min_length, max_length) call that returns, with
\* n >= 1 and 1 <= min_length <= max_length <= 15, returns at most n strings,
\* pairwise distinct, each passing is_valid_symbol, whatever earlier calls
\* left in symbol_cache.
C1_BatchContract ==
    (Returned /\ n >= 1 /\ 1 <= min_length /\ min_length <= max_length /\ max_length <= 15)
        => /\ Len(Result) <= n
           /\ Distinct(Result)
           /\ \A i \in DOMAIN Result : is_valid_symbol(Result[i])

\* a second call with the key of the first has returned two symbols
C1_Witness ==
    /\ Returned /\ calls = 2 /\ n = 2 /\ Len(Result) = 2
    /\ Cardinality(CacheGet(cache_key)) = 4

\* C2: every generate_batch call with n >= 1 and 1 <= min_length <= max_length
\* eventually returns, in every reachable state of the generator; with a
\* symbol space smaller than n it returns the partial result instead of
\* looping.  A call returns only if the retry loop of generate_novel_symbol
\* ends, so wherever that loop runs combine_symbols(length) must be able to
\* return a string that is not in the cache entry.
C2_BatchTerminates ==
    (pc = "novel")
        => \E s \in combine_symbols(categories, decorators, positions, length, "") :
              s \notin CacheGet(cache_key)

\* C3: generate_batch is called only with n >= 1 and 1 <= min_length <=
\* max_length: with a field that is no integer or is <= 0 the click shows the
\* error and returns without calling generate_batch, the cache unchanged; with
\* min > max the two values are swapped before the call.
PositiveText(txt) == ParseInt(txt).ok /\ ParseInt(txt).val > 0

C3_InputGuard ==
    [][ /\ (calls' = calls + 1 /\ ~(PositiveText(typed'.amount) /\ PositiveText(typed'.min)
                                    /\ PositiveText(typed'.max)))
            => /\ pc' = "idle"
               /\ status_var' = StatusError
               /\ screen' = StatusError
               /\ symbols_text' = TextError
               /\ symbol_cache' = symbol_cache
        /\ (pc' = "batch" /\ pc # "novel")
            => /\ PositiveText(typed'.amount) /\ PositiveText(typed'.min)
               /\ PositiveText(typed'.max)
               /\ n' = ParseInt(typed'.amount).val
               /\ n' >= 1 /\ 1 <= min_length' /\ min_length' <= max_length'
               /\ {min_length', max_length'} =
                     {ParseInt(typed'.min).val, ParseInt(typed'.max).val}
      ]_vars

\* after a batch, a click with a field that is no positive number
C3_Witness ==
    /\ pc = "idle" /\ calls = 2 /\ status_var = StatusError
    /\ symbol_cache # NoKeys
    /\ ~PositiveText(typed.amount)

\* C4: on a newly constructed generator generate_batch(5, 1, 1) returns
\* exactly 5 pairwise distinct strings, each one code point long and a member
\* of the 35-symbol base catalog (6+3+6+4+7+9 over the six categories).
C4_FiveOfThirtyFive ==
    (Returned /\ calls = 1 /\ typed = Numbers(5, 1, 1))
        => /\ Len(Result) = 5
           /\ Distinct(Result)
           /\ \A i \in DOMAIN Result : Len(Result[i]) = 1 /\ Result[i][1] \in BaseSymbols
           /\ Cardinality(BaseSymbols) = 35
           /\ [i \in DOMAIN categories |-> Len(categories[i].symbols)] = <<6, 3, 6, 4, 7, 9>>

C4_Witness == Returned /\ calls = 1 /\ typed = Numbers(5, 1, 1) /\ Len(Result) = 5

\* C5: is_valid_symbol(s) is true exactly when s has at most 15 code points
\* and every character's general category is one of So, Sm, Mn, Me, Pd, Lu;
\* otherwise it is false, never an exception.
C5_ValidExactly ==
    (pc = "probed")
        => /\ ret \in BOOLEAN
           /\ ret <=> /\ Len(arg) <= 15
                      /\ \A i \in DOMAIN arg :
                            GeneralCategory(arg[i]) \in {"So", "Sm", "Mn", "Me", "Pd", "Lu"}

\* a string of exactly 15 whitelisted characters is accepted
C5_Witness == pc = "probed" /\ Len(arg) = 15 /\ ret = TRUE

\* C6: combine_symbols(length, method) returns the empty string for length
\* <= 0; one base symbol for length 1; for length >= 2 a base symbol and a
\* position marker for 'stack', a base symbol and a decorator for 'overlay',
\* length base symbols for 'join', and one of these three with no method.
IsStack(s) == Len(s) = 2 /\ s[1] \in BaseSymbols /\ s[2] \in Range(positions)

IsOverlay(s) ==
    Len(s) = 2 /\ s[1] \in BaseSymbols /\ s[2] \in Range(DecoratorValues(decorators))

IsJoin(s, len) == Len(s) = len /\ \A i \in DOMAIN s : s[i] \in BaseSymbols

C6_CombineShapes ==
    (pc = "combined")
        => /\ arg.len <= 0 => ret = <<>>
           /\ arg.len = 1 => Len(ret) = 1 /\ ret[1] \in BaseSymbols
           /\ (arg.len >= 2 /\ arg.method = "stack") => IsStack(ret)
           /\ (arg.len >= 2 /\ arg.method = "overlay") => IsOverlay(ret)
           /\ (arg.len >= 2 /\ arg.method = "join") => IsJoin(ret, arg.len)
           /\ (arg.len >= 2 /\ arg.method = "")
                => IsStack(ret) \/ IsOverlay(ret) \/ IsJoin(ret, arg.len)

\* 'stack' asked for three symbols gives two code points
C6_Witness == pc = "combined" /\ arg.len = 3 /\ arg.method = "stack" /\ Len(ret) = 2

\* C7: with valid numbers and min > max, the notice 'Length values swapped to
\* maintain valid range' is painted on the status bar before another status
\* text replaces it.
SwapRun ==
    /\ calls > 0
    /\ PositiveText(typed.amount) /\ PositiveText(typed.min) /\ PositiveText(typed.max)
    /\ ParseInt(typed.min).val > ParseInt(typed.max).val

C7_SwapNoticePainted == (SwapRun /\ status_var # StatusSwapped) => StatusSwapped \in seen

\* C8: no generator operation changes the category table, the decorator
\* table or the position markers; listing the categories again gives what
\* the first listing gave.
C8_CatalogFrame ==
    /\ categories = InitialCategories
    /\ decorators = InitialDecorators
    /\ positions = InitialPositions
    /\ update_categories_display(categories) = categories_text

\* two batches have run and the cache holds their draws
C8_Witness == Returned /\ calls = 2 /\ Cardinality(DOMAIN symbol_cache) = 2

\* C9: generate_novel_symbol with a non-empty key returns a string that was
\* not in the key's cache entry and is in it afterwards; entries only grow
\* and no other key's entry changes; so no string is returned twice for one
\* key, and the results of separate generate_batch calls with one key are
\* disjoint.
HistGet(map, k) == IF k \in DOMAIN map THEN map[k] ELSE {}

C9_NovelPerKey ==
    [][ /\ NovelReturns
            => /\ cache_key # <<>>
               /\ new_symbol \notin CacheGet(cache_key)
               /\ cache_key \in DOMAIN symbol_cache'
               /\ new_symbol \in symbol_cache'[cache_key]
               /\ new_symbol \notin HistGet(novel_returned, cache_key)
        /\ \A k \in DOMAIN symbol_cache :
               /\ k \in DOMAIN symbol_cache'
               /\ symbol_cache[k] \subseteq symbol_cache'[k]
               /\ k # cache_key => symbol_cache'[k] = symbol_cache[k]
        /\ DOMAIN symbol_cache' \subseteq DOMAIN symbol_cache \cup {cache_key}
        /\ BatchReturns => Range(Result') \cap HistGet(batch_returned, cache_key) = {}
      ]_vars

\* a second batch with the key of the first has returned
C9_Witness ==
    /\ Returned /\ calls = 2 /\ symbols # {}
    /\ symbols # HistGet(batch_returned, cache_key)
    /\ Range(Result) = symbols

\* C10: a string built by 'stack' fails is_valid_symbol, so generate_batch
\* returns no symbol holding a position marker: each is one base symbol, a
\* join of base symbols or a base symbol with a decorator; a stack sample
\* still counts as an attempt and takes a place in the cache.
C10_StackRejected ==
    [][ /\ BatchReturns
            => \A len \in {2, 3} :
                  \A s \in combine_symbols(categories, decorators, positions, len, "stack") :
                     ~is_valid_symbol(s)
        /\ \A s \in symbols' :
               /\ \A i \in DOMAIN s : s[i] \notin Range(positions)
               /\ (Len(s) = 1 /\ s[1] \in BaseSymbols) \/ IsJoin(s, Len(s)) \/ IsOverlay(s)
        /\ BatchReturns => Range(Result') = symbols
        /\ (NovelReturns /\ IsStack(new_symbol))
            => /\ attempts' = attempts + 1
               /\ symbols' = symbols
               /\ cache_key \in DOMAIN symbol_cache'
               /\ new_symbol \in symbol_cache'[cache_key]
               /\ Cardinality(symbol_cache'[cache_key])
                     = Cardinality(CacheGet(cache_key)) + 1
      ]_vars

\* all ten attempts of generate_batch(1, 2, 2) were stack samples
C10_Witness ==
    /\ Returned /\ n = 1 /\ attempts = 10 /\ Result = <<>>
    /\ \A s \in CacheGet(cache_key) : IsStack(s)

=============================================================================
